---- MODULE Spec2Model ----
(***************************************************************************)
(* A model of gemini-oden-extension/mcp/github-sync.py (OdenGitHubSync).   *)
(*                                                                         *)
(* Text is modelled as a sequence of tokens.  A token is a string that the *)
(* program never looks inside, except for the substrings it searches for,  *)
(* and those are tokens of their own: "---" (the frontmatter marker),      *)
(* ".git", "github.com", "/", ":", "git@", "\n", and the words "template"  *)
(* and "example" in their spellings.  So str.split, str.replace,           *)
(* str.startswith, str.strip and the `in` test work on token sequences     *)
(* exactly as Python's work on characters.                                 *)
(***************************************************************************)
EXTENDS Integers, Sequences, FiniteSets, TLC

VARIABLES
    mode,            \* which entry point the behaviour exercises
    input,           \* the parts the inputs were built from (read by the properties only)
    remote,          \* what `git remote get-url origin` answers: [rc, url] and the url's parts
    repo_info,       \* the last result of get_repository_info, or NoResult
    epic_name,       \* the tool's argument
    files,           \* the tasks directory, in os.listdir order: [name, content]
    tracker,         \* the issues the tracker client created, oldest first; the
                     \* n-th has number n
    tmpfiles,        \* the temporary body files that exist
    run,             \* the number of tool invocations started
    pc,              \* the position of the invocation in progress
    tasks,           \* find_epic_tasks' result
    idx,             \* the task the loop of sync_epic_to_github is at (1-based)
    issue_result,    \* the last result of create_github_issue
    created_issues,  \* the list sync_epic_to_github collects
    epic_issue,      \* create_epic_tracking_issue's result
    last_cmd,        \* the last command line built for `gh issue create`, or NoCmd
    response,        \* the tool's response, or NoResult
    reread,          \* a task file read again after its update
    faults,          \* the environment failures so far
    log              \* the steps of the invocation in progress, in order

vars == <<mode, input, remote, repo_info, epic_name, files, tracker, tmpfiles, run, pc,
          tasks, idx, issue_result, created_issues, epic_issue, last_cmd, response,
          reread, faults, log>>

NoResult == [none |-> TRUE]

\* Bounds of the model
MaxTasks == 2     \* files in the tasks directory
MaxRuns == 2      \* invocations of sync_epic_to_github
MaxFaults == 1    \* environment failures in one behaviour

(***************************************************************************)
(* Python's str operations, on token sequences.                            *)
(***************************************************************************)
StartsWith(s, p) == Len(p) <= Len(s) /\ SubSeq(s, 1, Len(p)) = p

RECURSIVE FindSub(_, _, _)
\* str.find(p) from position i (1-based); 0 when p does not occur.
FindSub(s, p, i) ==
    IF i + Len(p) - 1 > Len(s) THEN 0
    ELSE IF SubSeq(s, i, i + Len(p) - 1) = p THEN i
    ELSE FindSub(s, p, i + 1)

ContainsSub(s, p) == FindSub(s, p, 1) # 0

RECURSIVE SplitSub(_, _, _)
\* str.split(p, max): max = -1 splits at every occurrence.
SplitSub(s, p, max) ==
    LET i == FindSub(s, p, 1) IN
    IF max = 0 \/ i = 0 THEN <<s>>
    ELSE <<SubSeq(s, 1, i - 1)>> \o SplitSub(SubSeq(s, i + Len(p), Len(s)), p, max - 1)

RECURSIVE ReplaceSub(_, _, _)
\* str.replace(p, r): every non-overlapping occurrence, left to right.
ReplaceSub(s, p, r) ==
    LET i == FindSub(s, p, 1) IN
    IF i = 0 THEN s
    ELSE SubSeq(s, 1, i - 1) \o r \o ReplaceSub(SubSeq(s, i + Len(p), Len(s)), p, r)

IsSpace(t) == t \in {"\n", " "}

RECURSIVE LStrip(_)
LStrip(s) == IF s # <<>> /\ IsSpace(Head(s)) THEN LStrip(Tail(s)) ELSE s

RECURSIVE RStrip(_)
RStrip(s) ==
    IF s # <<>> /\ IsSpace(s[Len(s)]) THEN RStrip(SubSeq(s, 1, Len(s) - 1)) ELSE s

\* str.strip()
Strip(s) == RStrip(LStrip(s))

\* str.lower(), token by token
LowerTok(t) ==
    CASE t = "Template" -> "template"
      [] t = "Example"  -> "example"
      [] OTHER          -> t

Lower(s) == [i \in 1..Len(s) |-> LowerTok(s[i])]

(***************************************************************************)
(* run_command: the outcome of a child process is an input of the model.   *)
(* A timeout or a failed launch is returncode 1 without stdout.            *)
(***************************************************************************)
RunResult(rc, out) == [returncode |-> rc, stdout |-> out]

(***************************************************************************)
(* get_repository_info                                                     *)
(***************************************************************************)
RepoFail(msg) == [none |-> FALSE, success |-> FALSE, error |-> msg, repo |-> <<>>, url |-> <<>>]
RepoOk(repo, url) == [none |-> FALSE, success |-> TRUE, error |-> "", repo |-> repo, url |-> url]

\* Lines 200-203.  Element [2] is Python's [1]; it does not exist when the
\* URL holds no separator, and Python raises IndexError.
RepoOfUrlRaises(remote_url) ==
    IF StartsWith(remote_url, <<"git@">>)
    THEN Len(SplitSub(remote_url, <<":">>, -1)) < 2
    ELSE Len(SplitSub(remote_url, <<"github.com", "/">>, -1)) < 2

RepoOfUrl(remote_url) ==
    IF StartsWith(remote_url, <<"git@">>)
    THEN ReplaceSub(SplitSub(remote_url, <<":">>, -1)[2], <<".git">>, <<>>)
    ELSE ReplaceSub(SplitSub(remote_url, <<"github.com", "/">>, -1)[2], <<".git">>, <<>>)

GetRepositoryInfo(result) ==
    IF result.returncode # 0 THEN RepoFail("No git remote origin found")
    ELSE LET remote_url == Strip(result.stdout) IN
         IF ContainsSub(Lower(remote_url), <<"template">>)
              \/ ContainsSub(Lower(remote_url), <<"example">>)
         THEN RepoFail("Cannot sync to template repository")
         ELSE IF ContainsSub(remote_url, <<"github.com">>)
         THEN IF RepoOfUrlRaises(remote_url)
              THEN RepoFail("Error getting repository info")
              ELSE RepoOk(RepoOfUrl(remote_url), remote_url)
         ELSE RepoFail("Not a GitHub repository")

(***************************************************************************)
(* Values of the metadata block, as yaml.safe_load returns them: a str, an *)
(* int, a list of scalars, or None.  The member v holds the tokens: of the *)
(* text (str), the digits (int), one token per item (list).                *)
(***************************************************************************)
VStr(s)  == [k |-> "str",  v |-> s]
VInt(s)  == [k |-> "int",  v |-> s]
VList(s) == [k |-> "list", v |-> s]
VNone    == [k |-> "null", v |-> <<>>]

\* Decimal numerals; NumToks[n] is str(n).
NumToks == <<"1", "2", "3", "4", "5", "6", "7", "8", "9", "10", "11", "12", "13",
             "14", "15", "16", "17", "18", "19", "20", "21", "22", "23", "24">>
NumTokSet == {NumToks[n] : n \in 1..Len(NumToks)} \cup {"0"}
StrOfInt(n) == IF n = 0 THEN "0" ELSE NumToks[n]
IsNumeral(s) == Len(s) = 1 /\ s[1] \in NumTokSet

\* dict.get(key, default)
Get(d, key, default) == IF key \in DOMAIN d THEN d[key] ELSE default

\* bool(value)
Truthy(val) == val.k # "null" /\ val.v # <<>> /\ val.v # <<"0">>

RECURSIVE ReprItems(_)
ReprItems(items) ==
    IF items = <<>> THEN <<>>
    ELSE (IF IsNumeral(<<Head(items)>>) THEN <<Head(items)>> ELSE <<"'", Head(items), "'">>)
         \o (IF Len(items) > 1 THEN <<", ">> ELSE <<>>) \o ReprItems(Tail(items))

\* str(value), as an f-string formats it
Str(val) ==
    CASE val.k = "null" -> <<"None">>
      [] val.k = "list" -> <<"[">> \o ReprItems(val.v) \o <<"]">>
      [] OTHER          -> val.v

(***************************************************************************)
(* yaml.safe_load of the metadata text: one "key: value" per line, a list  *)
(* in flow style ([a, b]) or in block style (key: and "- item" lines).     *)
(* Anything else raises; text without any entry loads as None.             *)
(***************************************************************************)
RECURSIVE FlowItems(_)
FlowItems(s) ==
    IF s = <<>> THEN <<>>
    ELSE IF Head(s) \in {",", " "} THEN FlowItems(Tail(s))
    ELSE <<Head(s)>> \o FlowItems(Tail(s))

ScalarRaises(rest) ==
    /\ rest # <<>>
    /\ Head(rest) = "["
    /\ rest[Len(rest)] # "]"

ParseScalar(rest) ==
    IF rest = <<>> \/ rest = <<"null">> THEN VNone
    ELSE IF rest = <<"''">> THEN VStr(<<>>)
    ELSE IF IsNumeral(rest) THEN VInt(rest)
    ELSE IF Head(rest) = "[" THEN VList(FlowItems(SubSeq(rest, 2, Len(rest) - 1)))
    ELSE VStr(rest)

RECURSIVE LoadLines(_, _, _)
\* acc = [ok, map, cur]: cur is the key whose block list is open, or ""
LoadLines(lines, i, acc) ==
    IF i > Len(lines) \/ ~acc.ok THEN acc
    ELSE LET line == RStrip(lines[i]) IN
         IF line = <<>> THEN LoadLines(lines, i + 1, acc)
         ELSE IF Len(line) >= 2 /\ line[2] = ": "
         THEN LET rest == SubSeq(line, 3, Len(line)) IN
              IF ScalarRaises(rest) THEN [acc EXCEPT !.ok = FALSE]
              ELSE LoadLines(lines, i + 1,
                       [ok  |-> TRUE,
                        map |-> (line[1] :> ParseScalar(rest)) @@ acc.map,
                        cur |-> IF rest = <<>> THEN line[1] ELSE ""])
         ELSE IF Len(line) = 2 /\ line[1] = "- " /\ acc.cur # ""
         THEN LET old == acc.map[acc.cur]
                  new == VList((IF old.k = "list" THEN old.v ELSE <<>>) \o <<line[2]>>) IN
              LoadLines(lines, i + 1, [acc EXCEPT !.map = (acc.cur :> new) @@ acc.map])
         ELSE [acc EXCEPT !.ok = FALSE]

EmptyMap == [x \in {} |-> VNone]

\* [ok, map]: ok is FALSE when safe_load raises or returns something that
\* is no dict (frontmatter.get then raises AttributeError).
SafeLoad(text) ==
    LET r == LoadLines(SplitSub(text, <<"\n">>, -1), 1,
                       [ok |-> TRUE, map |-> EmptyMap, cur |-> ""]) IN
    [ok |-> r.ok /\ DOMAIN r.map # {}, map |-> r.map]

(***************************************************************************)
(* yaml.dump(frontmatter, default_flow_style=False): keys sorted, a list   *)
(* in block style.                                                         *)
(***************************************************************************)
KeyOrder == <<"epic", "github_issue", "github_url", "labels", "name", "status",
              "sync_status", "synced_at", "updated", "work_stream">>

RECURSIVE DumpItems(_)
DumpItems(items) ==
    IF items = <<>> THEN <<>>
    ELSE <<"- ", Head(items), "\n">> \o DumpItems(Tail(items))

DumpEntry(key, val) ==
    CASE val.k = "null" -> <<key, ": ", "null", "\n">>
      [] val.k = "list" -> IF val.v = <<>> THEN <<key, ": ", "[", "]", "\n">>
                           ELSE <<key, ": ", "\n">> \o DumpItems(val.v)
      [] val.k = "str" /\ val.v = <<>> -> <<key, ": ", "''", "\n">>
      [] OTHER -> <<key, ": ">> \o val.v \o <<"\n">>

RECURSIVE DumpFrom(_, _)
DumpFrom(d, i) ==
    IF i > Len(KeyOrder) THEN <<>>
    ELSE (IF KeyOrder[i] \in DOMAIN d THEN DumpEntry(KeyOrder[i], d[KeyOrder[i]]) ELSE <<>>)
         \o DumpFrom(d, i + 1)

YamlDump(d) == DumpFrom(d, 1)

(***************************************************************************)
(* read_task_file: None (NoTask) or the task dictionary.                   *)
(***************************************************************************)
NoTask == [none |-> TRUE]

ReadTaskFile(filepath, content) ==
    IF ~StartsWith(content, <<"---">>) THEN NoTask
    ELSE LET parts == SplitSub(content, <<"---">>, 2) IN
         IF Len(parts) < 3 THEN NoTask
         ELSE LET loaded == SafeLoad(parts[2]) IN
              IF ~loaded.ok THEN NoTask
              ELSE [none        |-> FALSE,
                    filepath    |-> filepath,
                    frontmatter |-> loaded.map,
                    body        |-> Strip(parts[3]),
                    title       |-> Get(loaded.map, "name", VStr(<<"Untitled Task">>)),
                    epic        |-> Get(loaded.map, "epic", VNone),
                    work_stream |-> Get(loaded.map, "work_stream", VNone),
                    labels      |-> Get(loaded.map, "labels", VList(<<>>))]

(***************************************************************************)
(* update_task_with_issue: the new content of the task's file, or the      *)
(* exception int() raises on a number that is no numeral.                  *)
(***************************************************************************)
SyncKeys == {"github_issue", "github_url", "synced_at", "sync_status", "updated"}

UpdateRaises(issue) == ~IsNumeral(issue.number)

\* Lines 326-330
UpdatedFrontmatter(task, issue, now1, now2) ==
    ("github_issue" :> VInt(issue.number))
    @@ ("github_url" :> VStr(issue.url))
    @@ ("synced_at" :> VStr(<<now1>>))
    @@ ("sync_status" :> VStr(<<"created">>))
    @@ ("updated" :> VStr(<<now2>>))
    @@ task.frontmatter

\* Lines 333-334
NewContent(task, issue, now1, now2) ==
    <<"---", "\n">> \o YamlDump(UpdatedFrontmatter(task, issue, now1, now2))
    \o <<"---", "\n", "\n">> \o task.body

(***************************************************************************)
(* create_github_issue.  The environment decides (env): whether creating   *)
(* the temporary file or writing the body into it raises (fault), the exit *)
(* status of the tracker client (rc) and the number it gives the issue.    *)
(***************************************************************************)
NoCmd == [none |-> TRUE]

IssueFail(msg) ==
    [none |-> FALSE, success |-> FALSE, number |-> <<>>, url |-> <<>>, title |-> <<>>, error |-> msg]

IsFileTask(task) == "frontmatter" \in DOMAIN task

\* One value per list item
ItemVals(items) ==
    [i \in 1..Len(items) |->
        IF IsNumeral(<<items[i]>>) THEN VInt(<<items[i]>>) ELSE VStr(<<items[i]>>)]

\* A faulty variant: the work-stream tag is put before the document's labels.
FileLabelsStreamFirst(task) ==
    <<VStr(<<"oden-epic">>), task.epic>>
    \o (IF Truthy(task.work_stream) THEN <<task.work_stream>> ELSE <<>>)
    \o ItemVals(task.labels.v)

\* Lines 267-269
FileLabels(task) ==
    <<VStr(<<"oden-epic">>), task.epic>> \o ItemVals(task.labels.v)
    \o (IF Truthy(task.work_stream) THEN <<task.work_stream>> ELSE <<>>)

\* Line 265
FileTitle(task) == <<"[">> \o Str(task.epic) \o <<"] ">> \o Str(task.title)

\* Lines 263-274: [raises, title, body, labels]; list + non-list raises TypeError.
Prepare(task) ==
    IF IsFileTask(task)
    THEN IF task.labels.k # "list"
         THEN [raises |-> TRUE, title |-> VNone, body |-> VNone, labels |-> <<>>]
         ELSE [raises |-> FALSE, title |-> VStr(FileTitle(task)), body |-> VStr(task.body),
               labels |-> FileLabels(task)]
    ELSE [raises |-> FALSE, title |-> task.title, body |-> task.body,
          labels |-> ItemVals(task.labels.v)]

\* Lines 284-293
BuildCmd(repo, title, body, labels) ==
    [none |-> FALSE, repo |-> repo, title |-> title, body_file |-> body, labels |-> labels]

\* subprocess.run raises TypeError on an argument that is no str; run_command
\* turns that into returncode 1, and no process runs.
CmdRuns(cmd) ==
    /\ cmd.title.k = "str"
    /\ \A i \in 1..Len(cmd.labels) : cmd.labels[i].k = "str"

\* What the tracker client prints for the issue it created.
IssueUrl(repo, n) ==
    <<"https:", "/", "/", "github.com", "/">> \o repo \o <<"/", "issues", "/", StrOfInt(n)>>

\* Lines 297-311
ResultOfRun(result, title) ==
    IF result.returncode = 0
    THEN LET issue_url == Strip(result.stdout)
             segs == SplitSub(issue_url, <<"/">>, -1) IN
         [none |-> FALSE, success |-> TRUE, number |-> segs[Len(segs)], url |-> issue_url,
          title |-> title, error |-> ""]
    ELSE IssueFail("Failed to create issue")

\* Lines 278-280 and 313-315: does the temporary file outlive the call?  It
\* is created with delete=False, and the finally that unlinks it is entered
\* only after the with block has written the body and left.
TempLeft(written) == ~written

\* What the tracker keeps of a command that created an issue
Issue(cmd) == [repo |-> cmd.repo, title |-> cmd.title, labels |-> cmd.labels]

\* [result, cmd, created, leaked]: created says that the tracker made an issue.
CreateGithubIssue(task, repo, env) ==
    LET p == Prepare(task) IN
    IF p.raises
    THEN [result |-> IssueFail("exception"), cmd |-> NoCmd, created |-> FALSE,
          leaked |-> FALSE]
    ELSE IF env.fault = "write" \/ p.body.k # "str"
    THEN [result |-> IssueFail("exception"), cmd |-> NoCmd, created |-> FALSE,
          leaked |-> TempLeft(FALSE)]
    ELSE LET cmd == BuildCmd(repo, p.title, p.body.v, p.labels)
             ran == CmdRuns(cmd)
             rc  == IF ran THEN env.rc ELSE 1
             out == IF rc = 0 THEN IssueUrl(repo, env.number) \o <<"\n">> ELSE <<>> IN
         [result  |-> ResultOfRun(RunResult(rc, out), Str(p.title)),
          cmd     |-> cmd,
          created |-> rc = 0,
          leaked  |-> TempLeft(TRUE)]

(***************************************************************************)
(* create_epic_tracking_issue                                              *)
(***************************************************************************)
RECURSIVE JoinLines(_)
\* chr(10).join(lines)
JoinLines(lines) ==
    IF lines = <<>> THEN <<>>
    ELSE Head(lines) \o (IF Len(lines) > 1 THEN <<"\n">> ELSE <<>>) \o JoinLines(Tail(lines))

\* Line 353, one line
ChecklistLine(epic, issue) ==
    <<"- [ ] #">> \o issue.number \o <<": ">>
    \o ReplaceSub(issue.title, <<"[", epic, "] ">>, <<>>)

ChecklistLines(epic, issues) ==
    [i \in 1..Len(issues) |-> ChecklistLine(epic, issues[i])]

\* Lines 347-371
TrackingBody(epic, issues) ==
    <<"# Epic: ", epic, "\n", "\n", "## Tasks", "\n", "\n">>
    \o JoinLines(ChecklistLines(epic, issues))
    \o <<"\n", "\n", "## Progress", "\n", "\n", "Total Tasks: ", StrOfInt(Len(issues)), "\n",
         "Completed: ", "0", "\n", "In Progress: ", "0", "\n",
         "Todo: ", StrOfInt(Len(issues)), "\n", "\n", "## Labels", "\n", "\n", epic, "\n">>

\* Lines 345, 373-375
TrackingData(epic, issues) ==
    [title  |-> VStr(<<"[EPIC] ", epic>>),
     body   |-> VStr(TrackingBody(epic, issues)),
     labels |-> VList(<<"epic", "oden-epic", epic>>)]

Sentinel == [none |-> FALSE, success |-> FALSE, number |-> <<"?">>, url |-> <<"?">>, title |-> <<>>, error |-> ""]

\* A faulty variant: a failed creation is returned as it is.
TrackingResultRaw(result) == result

\* Line 378
TrackingResult(result) == IF result.success THEN result ELSE Sentinel

(***************************************************************************)
(* find_epic_tasks                                                         *)
(***************************************************************************)
FileName(prefix, n) == <<prefix, "-task-", StrOfInt(n), ".md">>

\* Line 221
Matches(filename, epic) ==
    StartsWith(filename, <<epic, "-task-">>) /\ filename[Len(filename)] = ".md"

RECURSIVE FindFrom(_, _, _)
FindFrom(dir, epic, i) ==
    IF i > Len(dir) THEN <<>>
    ELSE LET t == IF Matches(dir[i].name, epic) THEN ReadTaskFile(i, dir[i].content)
                  ELSE NoTask IN
         (IF t.none THEN <<>> ELSE <<t>>) \o FindFrom(dir, epic, i + 1)

\* A faulty variant: a task that already names its issue is left out.
FindEpicTasksUnsynced(dir, epic) ==
    SelectSeq(FindFrom(dir, epic, 1), LAMBDA t : "github_issue" \notin DOMAIN t.frontmatter)

\* Lines 214-227; a task's filepath is the file's place in the directory.
FindEpicTasks(dir, epic) == FindFrom(dir, epic, 1)

(***************************************************************************)
(* Task documents as an author writes them: keys in the author's order, a  *)
(* list in flow style, white space around the body.  d names the parts:    *)
(* name, epic, work_stream (<<>>: no such key), labels ([has, items]),     *)
(* extra (more "key: value" lines), lead, body, trail.                     *)
(***************************************************************************)
RECURSIVE JoinWith(_, _)
JoinWith(items, sep) ==
    IF items = <<>> THEN <<>>
    ELSE <<Head(items)>> \o (IF Len(items) > 1 THEN <<sep>> ELSE <<>>)
         \o JoinWith(Tail(items), sep)

RECURSIVE ExtraLines(_)
ExtraLines(extra) ==
    IF extra = <<>> THEN <<>> ELSE Head(extra) \o <<"\n">> \o ExtraLines(Tail(extra))

AuthorYaml(d) ==
    (IF d.name # <<>> THEN <<"name", ": ">> \o d.name \o <<"\n">> ELSE <<>>)
    \o (IF d.epic # <<>> THEN <<"epic", ": ">> \o d.epic \o <<"\n">> ELSE <<>>)
    \o (IF d.labels.has
        THEN <<"labels", ": ", "[">> \o JoinWith(d.labels.items, ",") \o <<"]", "\n">>
        ELSE <<>>)
    \o (IF d.work_stream # <<>> THEN <<"work_stream", ": ">> \o d.work_stream \o <<"\n">>
        ELSE <<>>)
    \o ExtraLines(d.extra)

AuthorDoc(d) == <<"---", "\n">> \o AuthorYaml(d) \o <<"---">> \o d.lead \o d.body \o d.trail

(***************************************************************************)
(* Remote URLs the model draws from, built from their parts so that a      *)
(* formula can name the owner and the name the URL was built from.         *)
(***************************************************************************)
Owners == {<<"o">>, <<"Example">>}
RepoNames == {<<"n">>, <<"user", ".git", "hub", ".io">>, <<"my", "---", "repo">>,
              <<"app", "-", "template">>}
Hosts == {"github.com", "gitlab.com"}
Styles == {"ssh", "https", "sshslash"}
Suffixes == {<<>>, <<".git">>}

UrlOf(style, host, owner, name, suffix) ==
    CASE style = "ssh"      -> <<"git@", host, ":">> \o owner \o <<"/">> \o name \o suffix
      [] style = "https"    -> <<"https:", "/", "/", host, "/">> \o owner \o <<"/">> \o name \o suffix
      [] style = "sshslash" -> <<"git@", host, "/">> \o owner \o <<"/">> \o name \o suffix

Remotes ==
    { [rc |-> rc, style |-> st, host |-> h, owner |-> o, name |-> n, suffix |-> sf,
       url |-> UrlOf(st, h, o, n, sf) \o nl] :
        rc \in {0, 1}, st \in Styles, h \in Hosts, o \in Owners, n \in RepoNames,
        sf \in Suffixes, nl \in {<<"\n">>} }

(***************************************************************************)
(* What every specification starts from, and what the steps of one leave   *)
(* alone.                                                                  *)
(***************************************************************************)
NoRemote == [rc |-> 1, url |-> <<>>]

Fresh ==
    /\ repo_info = NoResult
    /\ tracker = <<>>
    /\ tmpfiles = 0
    /\ run = 0
    /\ tasks = <<>>
    /\ idx = 0
    /\ issue_result = NoResult
    /\ created_issues = <<>>
    /\ epic_issue = NoResult
    /\ last_cmd = NoCmd
    /\ response = NoResult
    /\ reread = NoResult
    /\ faults = 0
    /\ log = <<>>

config == <<mode, input, remote, epic_name>>

(***************************************************************************)
(* SpecRepo: get_repository_info over the remote URLs.                     *)
(***************************************************************************)
InitRepo ==
    /\ mode = "repo"
    /\ remote \in Remotes
    /\ input = [kind |-> "remote"]
    /\ epic_name = ""
    /\ files = <<>>
    /\ pc = "resolve"
    /\ Fresh

ResolveRepo ==
    /\ mode = "repo"
    /\ pc = "resolve"
    /\ repo_info' = GetRepositoryInfo(RunResult(remote.rc, remote.url))
    /\ pc' = "done"
    /\ UNCHANGED <<config, files, tracker, tmpfiles, run, tasks, idx, issue_result,
                   created_issues, epic_issue, last_cmd, response, reread, faults, log>>

NextRepo == ResolveRepo

SpecRepo == InitRepo /\ [][NextRepo]_vars

(***************************************************************************)
(* SpecDoc: a task document is read, updated with the result of a          *)
(* successful issue creation, and read again.                              *)
(***************************************************************************)
Times == <<"T1", "T2">>

Bodies == {<<"text">>, <<"intro", "\n", "---", "\n", "more", " ", "text">>}

DocNames == {<<"Login">>, <<"fix", " ", "[", "auth", "] ", "bug">>}

OldSyncLines ==
    << <<"github_issue", ": ", "9">>,
       <<"github_url", ": ", "https:", "/", "/", "github.com", "/", "o", "/", "n", "/",
         "issues", "/", "9">>,
       <<"synced_at", ": ", "T0">>, <<"sync_status", ": ", "created">>,
       <<"updated", ": ", "T0">> >>

Extras ==
    { <<>>, << <<"status", ": ", "open">> >>,
      << <<"status", ": ", "open">>, <<"updated", ": ", "T0">> >>,
      OldSyncLines }

DocParts ==
    { [name |-> n, epic |-> <<"auth">>, work_stream |-> w, labels |-> l, extra |-> x,
       lead |-> ld, body |-> b, trail |-> tr] :
        n \in DocNames, w \in {<<>>, <<"core">>},
        l \in {[has |-> FALSE, items |-> <<>>], [has |-> TRUE, items |-> <<"backend", "api">>]},
        x \in Extras, ld \in {<<"\n">>, <<"\n", "\n">>}, b \in Bodies,
        tr \in {<<>>, <<"\n">>} }

\* The repositories an issue URL may name
IssueRepos == {<<"o", "/", "n">>, <<"o", "/", "my", "---", "repo">>}

InitDoc ==
    /\ mode = "doc"
    /\ \E d \in DocParts, r \in IssueRepos, t1 \in 1..Len(Times) :
        \E t2 \in t1..Len(Times) :
            /\ input = [kind |-> "doc", d |-> d, now1 |-> Times[t1], now2 |-> Times[t2]]
            /\ files = << [name |-> FileName("auth", 1), content |-> AuthorDoc(d)] >>
            /\ remote = [rc |-> 0, url |-> <<"https:", "/", "/", "github.com", "/">> \o r]
    /\ epic_name = "auth"
    /\ pc = "read"
    /\ Fresh

DocRead ==
    /\ mode = "doc"
    /\ pc = "read"
    /\ tasks' = <<ReadTaskFile(1, files[1].content)>>
    /\ repo_info' = GetRepositoryInfo(RunResult(remote.rc, remote.url))
    /\ pc' = "create"
    /\ UNCHANGED <<config, files, tracker, tmpfiles, run, idx, issue_result,
                   created_issues, epic_issue, last_cmd, response, reread, faults, log>>

\* The issue creation succeeds: only then is the document updated (lines 62-65).
DocCreate ==
    /\ mode = "doc"
    /\ pc = "create"
    /\ ~tasks[1].none
    /\ \E r \in {CreateGithubIssue(tasks[1], repo_info.repo,
                        [fault |-> "none", rc |-> 0, number |-> Len(tracker) + 1])} :
        /\ issue_result' = r.result
        /\ last_cmd' = r.cmd
        /\ tracker' = IF r.created THEN Append(tracker, Issue(r.cmd)) ELSE tracker
        /\ pc' = IF r.result.success THEN "update" ELSE "done"
    /\ UNCHANGED <<config, files, repo_info, tmpfiles, run, tasks, idx,
                   created_issues, epic_issue, response, reread, faults, log>>

\* A faulty variant: the content goes to the first file of the directory.
WriteFileFirst(dir, filepath, content) == [dir EXCEPT ![1].content = content]

\* Lines 336-337
WriteFile(dir, filepath, content) == [dir EXCEPT ![filepath].content = content]

DocUpdate ==
    /\ mode = "doc"
    /\ pc = "update"
    /\ files' = IF UpdateRaises(issue_result) THEN files
                ELSE WriteFile(files, tasks[1].filepath,
                               NewContent(tasks[1], issue_result, input.now1, input.now2))
    /\ pc' = "reread"
    /\ UNCHANGED <<config, repo_info, tracker, tmpfiles, run, tasks, idx, issue_result,
                   created_issues, epic_issue, last_cmd, response, reread, faults, log>>

DocReread ==
    /\ mode = "doc"
    /\ pc = "reread"
    /\ reread' = ReadTaskFile(1, files[1].content)
    /\ pc' = "done"
    /\ UNCHANGED <<config, files, repo_info, tracker, tmpfiles, run, tasks, idx,
                   issue_result, created_issues, epic_issue, last_cmd, response, faults, log>>

NextDoc == DocRead \/ DocCreate \/ DocUpdate \/ DocReread

SpecDoc == InitDoc /\ [][NextDoc]_vars

(***************************************************************************)
(* SpecIssue: create_github_issue on a task read from a document, and on   *)
(* direct issue data (create_single_issue, create_epic_tracking_issue).    *)
(***************************************************************************)
LabelChoices ==
    { [has |-> FALSE, items |-> <<>>], [has |-> TRUE, items |-> <<>>],
      [has |-> TRUE, items |-> <<"backend", "api">>],
      [has |-> TRUE, items |-> <<"api", "api">>],
      [has |-> TRUE, items |-> <<"auth", "backend">>] }

IssueDocParts ==
    { [name |-> <<"Login">>, epic |-> e, work_stream |-> w, labels |-> l, extra |-> x,
       lead |-> <<"\n">>, body |-> <<"text">>, trail |-> <<"\n">>] :
        e \in {<<"auth">>, <<"pay">>, <<>>}, w \in {<<>>, <<"core">>, <<"api">>},
        l \in LabelChoices, x \in {<<>>} }
    \cup
    \* "labels:" without a value loads as None
    { [name |-> <<"Login">>, epic |-> <<"auth">>, work_stream |-> <<>>,
       labels |-> [has |-> FALSE, items |-> <<>>], extra |-> << <<"labels", ": ">> >>,
       lead |-> <<"\n">>, body |-> <<"text">>, trail |-> <<"\n">>] }

DirectData ==
    { [title |-> VStr(<<"Bug">>), body |-> b, labels |-> VList(l)] :
        b \in {VStr(<<"text">>), VNone}, l \in {<<>>, <<"bug">>} }

\* The outcomes the environment can give one call of create_github_issue
CreateEnvs(n) ==
    { [fault |-> "none", rc |-> 0, number |-> n], [fault |-> "none", rc |-> 1, number |-> n],
      [fault |-> "write", rc |-> 1, number |-> n] }

IsFault(env) == env.fault # "none" \/ env.rc # 0

GoodRemote ==
    [rc |-> 0, url |-> <<"git@", "github.com", ":", "o", "/", "n", ".git", "\n">>]

InitIssue ==
    /\ mode = "issue"
    /\ \/ \E d \in IssueDocParts :
            /\ input = [kind |-> "file", d |-> d]
            /\ files = << [name |-> FileName("auth", 1), content |-> AuthorDoc(d)] >>
       \/ \E t \in DirectData :
            /\ input = [kind |-> "direct", d |-> t]
            /\ files = <<>>
    /\ remote = GoodRemote
    /\ epic_name = "auth"
    /\ pc = "read"
    /\ Fresh

IssueRead ==
    /\ mode = "issue"
    /\ pc = "read"
    /\ tasks' = IF input.kind = "file" THEN <<ReadTaskFile(1, files[1].content)>>
                ELSE <<input.d>>
    /\ repo_info' = GetRepositoryInfo(RunResult(remote.rc, remote.url))
    /\ pc' = "create"
    /\ UNCHANGED <<config, files, tracker, tmpfiles, run, idx, issue_result,
                   created_issues, epic_issue, last_cmd, response, reread, faults, log>>

IssueCreate ==
    /\ mode = "issue"
    /\ pc = "create"
    /\ \E env \in CreateEnvs(Len(tracker) + 1) :
        \E r \in {CreateGithubIssue(tasks[1], repo_info.repo, env)} :
        /\ issue_result' = r.result
        /\ last_cmd' = r.cmd
        /\ tracker' = IF r.created THEN Append(tracker, Issue(r.cmd)) ELSE tracker
        /\ tmpfiles' = tmpfiles + (IF r.leaked THEN 1 ELSE 0)
        /\ faults' = faults + (IF IsFault(env) THEN 1 ELSE 0)
    /\ pc' = "done"
    /\ UNCHANGED <<config, files, repo_info, run, tasks, idx, created_issues, epic_issue,
                   response, reread, log>>

NextIssue == IssueRead \/ IssueCreate

SpecIssue == InitIssue /\ [][NextIssue]_vars

(***************************************************************************)
(* Spec: sync_epic_to_github, invoked up to MaxRuns times on one tasks     *)
(* directory.  The handler awaits nothing but its own blocking calls, so   *)
(* one invocation runs to its end before the next starts.                  *)
(***************************************************************************)
SyncDocChoices ==
    { \* a plain task of the epic
      [prefix |-> "auth",
       d |-> [name |-> <<"Login">>, epic |-> <<"auth">>, work_stream |-> <<>>,
              labels |-> [has |-> TRUE, items |-> <<"backend">>], extra |-> <<>>,
              lead |-> <<"\n">>, body |-> <<"text">>, trail |-> <<"\n">>]],
      \* a task whose name holds the text "[auth] "
      [prefix |-> "auth",
       d |-> [name |-> <<"fix", " ", "[", "auth", "] ", "bug">>, epic |-> <<"auth">>,
              work_stream |-> <<>>, labels |-> [has |-> FALSE, items |-> <<>>],
              extra |-> <<>>, lead |-> <<"\n">>, body |-> <<"text">>, trail |-> <<"\n">>]],
      \* a task file of the epic whose metadata names another epic
      [prefix |-> "auth",
       d |-> [name |-> <<"Pay">>, epic |-> <<"pay">>, work_stream |-> <<"core">>,
              labels |-> [has |-> FALSE, items |-> <<>>], extra |-> <<>>,
              lead |-> <<"\n">>, body |-> <<"text">>, trail |-> <<"\n">>]],
      \* a task file of another epic
      [prefix |-> "pay",
       d |-> [name |-> <<"Pay">>, epic |-> <<"pay">>, work_stream |-> <<>>,
              labels |-> [has |-> FALSE, items |-> <<>>], extra |-> <<>>,
              lead |-> <<"\n">>, body |-> <<"text">>, trail |-> <<"\n">>]] }

SyncRemotes ==
    { GoodRemote,
      [rc |-> 0, url |-> <<"https:", "/", "/", "github.com", "/", "o", "/", "my", "---",
                           "repo", "\n">>],
      [rc |-> 0, url |-> <<"https:", "/", "/", "github.com", "/", "o", "/", "app", "-",
                           "template", ".git", "\n">>],
      [rc |-> 0, url |-> <<"https:", "/", "/", "gitlab.com", "/", "o", "/", "n", "\n">>],
      NoRemote }

DirOf(c) == [i \in 1..Len(c) |-> [name |-> FileName(c[i].prefix, i),
                                  content |-> AuthorDoc(c[i].d)]]

Init ==
    /\ mode = "sync"
    /\ \E n \in 0..MaxTasks : \E c \in [1..n -> SyncDocChoices] :
        /\ input = [kind |-> "sync", docs |-> c]
        /\ files = DirOf(c)
    /\ remote \in SyncRemotes
    /\ epic_name = "auth"
    /\ pc = "idle"
    /\ Fresh

Event(op, i, ok, n) == [op |-> op, i |-> i, ok |-> ok, n |-> n]

ErrorResponse(kind) ==
    [none |-> FALSE, isError |-> TRUE, kind |-> kind, epic_number |-> <<>>, count |-> 0,
     lines |-> <<>>, epic_url |-> <<>>]

\* Lines 51-56
NoTasksResponse ==
    [none |-> FALSE, isError |-> FALSE, kind |-> "no tasks", epic_number |-> <<>>,
     count |-> 0, lines |-> <<>>, epic_url |-> <<>>]

\* Lines 70-84
Summary(epic, issues) ==
    [none |-> FALSE, isError |-> FALSE, kind |-> "summary",
     epic_number |-> epic.number, count |-> Len(issues),
     lines |-> [i \in 1..Len(issues) |-> [number |-> issues[i].number,
                                          title |-> issues[i].title]],
     epic_url |-> epic.url]

StartSync ==
    /\ mode = "sync"
    /\ pc \in {"idle", "done"}
    /\ run < MaxRuns
    /\ run' = run + 1
    /\ pc' = "auth"
    /\ log' = <<>>
    /\ repo_info' = NoResult
    /\ tasks' = <<>>
    /\ idx' = 0
    /\ issue_result' = NoResult
    /\ created_issues' = <<>>
    /\ epic_issue' = NoResult
    /\ response' = NoResult
    /\ last_cmd' = NoCmd
    /\ UNCHANGED <<config, files, tracker, tmpfiles, reread, faults>>

\* Lines 30-38
CheckAuth ==
    /\ mode = "sync"
    /\ pc = "auth"
    /\ \E rc \in {0, 1} :
        /\ rc # 0 => faults < MaxFaults
        /\ faults' = faults + (IF rc # 0 THEN 1 ELSE 0)
        /\ log' = Append(log, Event("auth", 0, rc = 0, <<>>))
        /\ IF rc # 0
           THEN response' = ErrorResponse("not authenticated") /\ pc' = "done"
           ELSE response' = response /\ pc' = "repo"
    /\ UNCHANGED <<config, files, repo_info, tracker, tmpfiles, run, tasks, idx,
                   issue_result, created_issues, epic_issue, last_cmd, reread>>

\* A faulty variant: the result of get_repository_info is not looked at.
RepoCheckedNever(info) == TRUE

\* Line 42
RepoChecked(info) == info.success

\* Lines 41-46
ResolveSync ==
    /\ mode = "sync"
    /\ pc = "repo"
    /\ \E info \in {GetRepositoryInfo(RunResult(remote.rc, remote.url))} :
        /\ repo_info' = info
        /\ log' = Append(log, Event("repo", 0, info.success, <<>>))
        /\ IF RepoChecked(info)
           THEN response' = response /\ pc' = "discover"
           ELSE response' = ErrorResponse(info.error) /\ pc' = "done"
    /\ UNCHANGED <<config, files, tracker, tmpfiles, run, tasks, idx, issue_result,
                   created_issues, epic_issue, last_cmd, reread, faults>>

\* Lines 49-56; os.listdir may raise, and line 86 catches it.
Discover ==
    /\ mode = "sync"
    /\ pc = "discover"
    /\ \E listed \in BOOLEAN :
        /\ ~listed => faults < MaxFaults
        /\ faults' = faults + (IF listed THEN 0 ELSE 1)
        /\ log' = Append(log, Event("discover", 0, listed, <<>>))
        /\ \E found \in {FindEpicTasks(files, epic_name)} :
           IF ~listed
           THEN /\ response' = ErrorResponse("Error syncing to GitHub")
                /\ pc' = "done" /\ tasks' = tasks /\ idx' = idx
           ELSE IF found = <<>>
           THEN /\ response' = NoTasksResponse
                /\ pc' = "done" /\ tasks' = found /\ idx' = idx
           ELSE /\ response' = response
                /\ pc' = "create" /\ tasks' = found /\ idx' = 1
    /\ UNCHANGED <<config, files, repo_info, tracker, tmpfiles, run, issue_result,
                   created_issues, epic_issue, last_cmd, reread>>

\* A faulty variant: the loop is left after its first task.
AfterTaskStop(i) == "tracking"

\* Line 60: after the loop body for task i, the next task or the tracking issue.
AfterTask(i) == IF i < Len(tasks) THEN "create" ELSE "tracking"

\* Lines 60-63
CreateTaskIssue ==
    /\ mode = "sync"
    /\ pc = "create"
    /\ \E env \in CreateEnvs(Len(tracker) + 1) :
        \E r \in {CreateGithubIssue(tasks[idx], repo_info.repo, env)} :
        /\ IsFault(env) => faults < MaxFaults
        /\ faults' = faults + (IF IsFault(env) THEN 1 ELSE 0)
        /\ issue_result' = r.result
        /\ last_cmd' = r.cmd
        /\ tracker' = IF r.created THEN Append(tracker, Issue(r.cmd)) ELSE tracker
        /\ tmpfiles' = tmpfiles + (IF r.leaked THEN 1 ELSE 0)
        /\ log' = Append(log, Event("create", idx, r.result.success, r.result.number))
        /\ IF r.result.success
           THEN /\ created_issues' = Append(created_issues, r.result)
                /\ pc' = "update" /\ idx' = idx
           ELSE /\ created_issues' = created_issues
                /\ pc' = AfterTask(idx) /\ idx' = idx + 1
    /\ UNCHANGED <<config, files, repo_info, run, tasks, epic_issue, response, reread>>

\* What opening and writing the task file can do to it
WriteOutcomes == {"written", "not opened"}

\* Line 65 and update_task_with_issue (lines 322-340)
UpdateTask ==
    /\ mode = "sync"
    /\ pc = "update"
    /\ \E w \in WriteOutcomes :
        LET raises == UpdateRaises(issue_result)
            path == tasks[idx].filepath
            now == Times[IF run < Len(Times) THEN run ELSE Len(Times)] IN
        /\ w # "written" => (faults < MaxFaults /\ ~raises)
        /\ faults' = faults + (IF w # "written" THEN 1 ELSE 0)
        /\ files' = IF raises \/ w = "not opened" THEN files
                    ELSE WriteFile(files, path, NewContent(tasks[idx], issue_result, now, now))
        /\ log' = Append(log, Event("update", idx, ~raises /\ w = "written",
                                    issue_result.number))
    /\ pc' = AfterTask(idx)
    /\ idx' = idx + 1
    /\ UNCHANGED <<config, repo_info, tracker, tmpfiles, run, tasks, issue_result,
                   created_issues, epic_issue, last_cmd, response, reread>>

\* Lines 68-84
CreateTracking ==
    /\ mode = "sync"
    /\ pc = "tracking"
    /\ \E env \in CreateEnvs(Len(tracker) + 1) :
        \E r \in {CreateGithubIssue(TrackingData(epic_name, created_issues),
                                    repo_info.repo, env)} :
        LET epic == TrackingResult(r.result) IN
        /\ IsFault(env) => faults < MaxFaults
        /\ faults' = faults + (IF IsFault(env) THEN 1 ELSE 0)
        /\ issue_result' = r.result
        /\ last_cmd' = r.cmd
        /\ tracker' = IF r.created THEN Append(tracker, Issue(r.cmd)) ELSE tracker
        /\ tmpfiles' = tmpfiles + (IF r.leaked THEN 1 ELSE 0)
        /\ log' = Append(log, Event("tracking", 0, r.result.success, r.result.number))
        /\ epic_issue' = epic
        /\ response' = Summary(epic, created_issues)
    /\ pc' = "done"
    /\ UNCHANGED <<config, files, repo_info, run, tasks, idx, created_issues, reread>>

Next ==
    \/ StartSync
    \/ CheckAuth
    \/ ResolveSync
    \/ Discover
    \/ CreateTaskIssue
    \/ UpdateTask
    \/ CreateTracking

Spec == Init /\ [][Next]_vars

(***************************************************************************)
(* Properties                                                              *)
(***************************************************************************)
\* int(numeral)
ToInt(tok) == CHOOSE n \in 1..Len(NumToks) : NumToks[n] = tok

\* The text holds the line "key: value"
HasLine(content, key, value) == ContainsSub(content, <<key, ": ">> \o value \o <<"\n">>)

\* The checklist lines of a tracking issue's body
ChecklistOf(body) ==
    LET after == SplitSub(body, <<"## Tasks", "\n", "\n">>, 1)[2]
        section == SplitSub(after, <<"\n", "\n", "## Progress">>, 1)[1] IN
    IF section = <<>> THEN <<>> ELSE SplitSub(section, <<"\n">>, -1)

EventsOf(op) == {j \in 1..Len(log) : log[j].op = op}
CreatesOf(i) == {j \in EventsOf("create") : log[j].i = i}
UpdatesOf(i) == {j \in EventsOf("update") : log[j].i = i}
OkTasks == {i \in 1..Len(tasks) : \E j \in CreatesOf(i) : log[j].ok}
Finished == mode = "sync" /\ pc = "done"
Summarised == Finished /\ response.kind = "summary"

\* C1: in a finished run that found tasks, whatever creations failed:
\* every task has exactly one creation attempt; every task whose creation
\* succeeded has its update, and its file names the issue unless writing the
\* file failed; the tracking issue is attempted once; its checklist has one
\* line per created issue and none for a failed task; the response is no
\* error and counts the created issues, fewer than the tasks when one failed.
C1_FailuresIsolated ==
    Summarised =>
        /\ \A i \in 1..Len(tasks) : Cardinality(CreatesOf(i)) = 1
        /\ \A i \in OkTasks : \E j \in UpdatesOf(i) :
              log[j].ok =>
                  /\ HasLine(files[tasks[i].filepath].content, "github_issue", log[j].n)
                  /\ HasLine(files[tasks[i].filepath].content, "sync_status", <<"created">>)
        /\ Cardinality(EventsOf("tracking")) = 1
        /\ ~last_cmd.none =>
              /\ Len(ChecklistOf(last_cmd.body_file)) = Cardinality(OkTasks)
              /\ \A l \in 1..Len(ChecklistOf(last_cmd.body_file)) :
                    \E i \in OkTasks : \E j \in CreatesOf(i) :
                        StartsWith(ChecklistOf(last_cmd.body_file)[l],
                                   <<"- [ ] #">> \o log[j].n \o <<": ">>)
        /\ ~response.isError
        /\ response.count = Cardinality(OkTasks)
        /\ (OkTasks # 1..Len(tasks)) => response.count < Len(tasks)

\* C1's case: one task failed, another succeeded and its file was written.
C1_Witness ==
    /\ Summarised
    /\ \E i \in 1..Len(tasks) : i \notin OkTasks
    /\ \E i \in OkTasks : \E j \in UpdatesOf(i) : log[j].ok
    /\ ~last_cmd.none
    /\ response.count < Len(tasks)

\* C2: once the authentication check or the repository resolution of a run
\* has failed, the run is over with an error response, and it has discovered
\* nothing, created nothing and written nothing.
C2_AbortsBeforeDiscovery ==
    (mode = "sync" /\ \E j \in EventsOf("auth") \cup EventsOf("repo") : ~log[j].ok) =>
        /\ pc = "done"
        /\ response.isError
        /\ EventsOf("discover") = {}
        /\ EventsOf("create") = {}
        /\ EventsOf("update") = {}
        /\ EventsOf("tracking") = {}

\* C2's case: the remote is a template repository, and the run is over.
C2_Witness ==
    /\ Finished
    /\ \E j \in EventsOf("repo") : ~log[j].ok
    /\ repo_info.error = "Cannot sync to template repository"

\* C3 (as claimed): the checklist of the tracking issue has one line per
\* created task issue, in creation order, and each shows the task's title
\* as the document gives it, the prefix "[<epic>] " alone removed.
C3_ChecklistShowsTitles ==
    (Summarised /\ ~last_cmd.none) =>
        /\ Len(ChecklistOf(last_cmd.body_file)) = Len(created_issues)
        /\ \A l \in 1..Len(created_issues) :
              \E i \in OkTasks : \E j \in CreatesOf(i) :
                  /\ log[j].n = created_issues[l].number
                  /\ ChecklistOf(last_cmd.body_file)[l] =
                        <<"- [ ] #">> \o created_issues[l].number \o <<": ">>
                        \o Str(tasks[i].title)

\* C4 (as claimed): after read, update and read again the body is the body
\* read first, the metadata has its keys and the five sync keys, and every
\* other key has the value it had.
C4_RoundTrip ==
    (mode = "doc" /\ pc = "done" /\ issue_result.success) =>
        /\ ~reread.none
        /\ reread.body = tasks[1].body
        /\ DOMAIN reread.frontmatter = DOMAIN tasks[1].frontmatter \cup SyncKeys
        /\ \A k \in DOMAIN tasks[1].frontmatter \ SyncKeys :
              reread.frontmatter[k] = tasks[1].frontmatter[k]

\* C5 (as claimed): when create_github_issue has returned, no temporary
\* body file is left.
C5_TempFilesRemoved == (mode = "issue" /\ pc = "done") => tmpfiles = 0

\* The texts of the --label flags, in order
LabelFlags(cmd) == [i \in 1..Len(cmd.labels) |-> Str(cmd.labels[i])]

\* What C6 expects for a document built from the parts d
ExpectedLabels(d) ==
    <<<<"oden-epic">>, d.epic>>
    \o [i \in 1..Len(d.labels.items) |-> <<d.labels.items[i]>>]
    \o (IF d.work_stream # <<>> THEN <<d.work_stream>> ELSE <<>>)

\* C6: the command built for a task read from a well-formed document with
\* epic X carries the labels oden-epic, X, the document's labels in their
\* order with duplicates kept, then the work-stream tag if there is one,
\* and no other; without a labels key: oden-epic, X and the tag.
C6_LabelFlags ==
    (mode = "issue" /\ pc = "done" /\ input.kind = "file" /\ input.d.epic # <<>>
        /\ ~last_cmd.none) =>
        LabelFlags(last_cmd) = ExpectedLabels(input.d)

\* C6's case: epic auth, labels [api, api], work stream api: a command ran
\* with the duplicates in it.
C6_Witness ==
    /\ mode = "issue" /\ pc = "done" /\ input.kind = "file"
    /\ issue_result.success
    /\ LabelFlags(last_cmd) = <<<<"oden-epic">>, <<"auth">>, <<"api">>, <<"api">>, <<"api">>>>

\* A remote URL of one of the two forms, on the tracker's host, that is no
\* template or example repository
ValidRemote(r) ==
    /\ r.rc = 0
    /\ r.style \in {"ssh", "https"}
    /\ r.host = "github.com"
    /\ ~ContainsSub(Lower(r.url), <<"template">>)
    /\ ~ContainsSub(Lower(r.url), <<"example">>)

\* C7 (as claimed): for a valid remote URL, with or without the .git
\* suffix, get_repository_info succeeds with the URL's owner/name.
C7_RepoIsOwnerName ==
    (mode = "repo" /\ pc = "done" /\ ValidRemote(remote)) =>
        /\ repo_info.success
        /\ repo_info.repo = remote.owner \o <<"/">> \o remote.name

\* C8: in a finished run that found tasks there is exactly one attempt to
\* create the tracking issue, it is the last step, and every task's attempt
\* (and update) comes before it; if it failed, the response is the summary,
\* no error, listing the created task issues, with "?" for the tracking
\* issue's number and URL.
C8_TrackingLast ==
    (Finished /\ tasks # <<>>) =>
        /\ Cardinality(EventsOf("tracking")) = 1
        /\ log[Len(log)].op = "tracking"
        /\ \A i \in 1..Len(tasks) : CreatesOf(i) # {}
        /\ \A i \in OkTasks : UpdatesOf(i) # {}
        /\ ~log[Len(log)].ok =>
              /\ response.kind = "summary"
              /\ ~response.isError
              /\ response.epic_number = <<"?">>
              /\ response.epic_url = <<"?">>
              /\ Len(response.lines) = Len(created_issues)
              /\ \A l \in 1..Len(created_issues) :
                    response.lines[l].number = created_issues[l].number

\* C8's case: a task issue was created and the tracking issue failed.
C8_Witness ==
    /\ Finished
    /\ tasks # <<>>
    /\ OkTasks # {}
    /\ ~log[Len(log)].ok
    /\ response.epic_number = <<"?">>

\* C9: a step changes a task file only as the update that follows the
\* successful creation of that task's issue, at most once per task and run,
\* and the file then names the issue the tracker created for that task.
C9_WrittenOnlyAfterSuccess ==
    [][ (mode = "sync" /\ files' # files) =>
            /\ pc = "update"
            /\ issue_result.success
            /\ log[Len(log)] = Event("create", idx, TRUE, issue_result.number)
            /\ UpdatesOf(idx) = {}
            /\ \A f \in 1..Len(files) : f # tasks[idx].filepath => files'[f] = files[f]
            /\ HasLine(files'[tasks[idx].filepath].content, "github_issue",
                       issue_result.number)
            /\ HasLine(files'[tasks[idx].filepath].content, "sync_status", <<"created">>)
            /\ tracker[ToInt(issue_result.number[1])].title = VStr(FileTitle(tasks[idx]))
      ]_vars

\* C9's case: of two tasks one failed and the other's file was written.
C9_Witness ==
    /\ Finished
    /\ \E i \in 1..Len(tasks) : i \notin OkTasks /\ UpdatesOf(i) = {}
    /\ \E i \in OkTasks : \E j \in UpdatesOf(i) :
          log[j].ok /\ HasLine(files[tasks[i].filepath].content, "github_issue", log[j].n)

\* The task files of the epic in the directory the behaviour started from
EpicFiles == {i \in 1..Len(input.docs) : input.docs[i].prefix = epic_name}

\* C10: when nothing has failed, every finished run has created one issue
\* per task file of the epic and one tracking issue, the files synchronised
\* before included, and each file names the issue of the last run.
C10_EveryRunCreates ==
    (Finished /\ faults = 0 /\ repo_info.success) =>
        /\ Len(tasks) = Cardinality(EpicFiles)
        /\ Len(tracker) = IF EpicFiles = {} THEN 0 ELSE run * (Cardinality(EpicFiles) + 1)
        /\ \A i \in 1..Len(tasks) : \E j \in CreatesOf(i) :
              /\ ToInt(log[j].n[1]) > (run - 1) * (Cardinality(EpicFiles) + 1)
              /\ HasLine(files[tasks[i].filepath].content, "github_issue", log[j].n)
              /\ HasLine(files[tasks[i].filepath].content, "github_url",
                         IssueUrl(repo_info.repo, ToInt(log[j].n[1])))

\* C10's case: a second run over files the first run updated.
C10_Witness ==
    /\ Finished /\ faults = 0 /\ run = 2
    /\ Len(tasks) = 2
    /\ Len(tracker) = 6
    /\ HasLine(files[1].content, "github_issue", <<"4">>)

====
